---- MODULE Spec2Model ----
(***************************************************************************)
(* Cart, catalog and checkout/payment life cycle of technest-backend.      *)
(*                                                                         *)
(* The persistent state is the three collections the controllers use       *)
(* (products, carts, checkouts).  verifyPayment, webhookHandler and        *)
(* cancelCheckout are split at the await that separates their record       *)
(* access from their second persistence call, so that the writes of        *)
(* requests running at the same time interleave (Spec); SpecSeq is the     *)
(* same system with the requests delivered one after another.  The cart,   *)
(* catalog and initializeCheckout handlers are one step each: what they    *)
(* write depends only on what they read.  Timestamps (createdAt,           *)
(* updatedAt) are left out.  The gateway is free to answer any status on   *)
(* every call.  SpecCartLoss is Spec in a store from which a cart          *)
(* document can disappear, which no handler of the application does.       *)
(* SpecFair is Spec with the confirmation handlers run to their end.       *)
(* SpecCartRace is the catalog and cart requests alone, with addToCart     *)
(* split at its Cart.create and any quantity in the request body.          *)
(* SpecAuth is the password reset requests alone.                          *)
(***************************************************************************)
EXTENDS Integers, Sequences, FiniteSets, TLC

\* ---------------------------------------------------------------- bounds
MaxCheckouts == 1      \* payment intents requested from the gateway
MaxSignals == 2        \* poll / webhook / cancel requests started
MaxCatalogOps == 2     \* admin catalog requests (create, update, delete)
MaxCartOps == 2        \* cart requests
MaxQty == 2            \* largest quantity a request asks for
MaxPrice == 2          \* largest catalog price
MaxForgot == 2         \* forgotPassword requests, one fresh token each
MaxReset == 2          \* resetPassword requests
MaxClock == 3          \* clock ticks

Users == {"u1", "u2"}
ProductIds == {"p1", "p2"}
Prices == 1..MaxPrice
Quantities == 1..MaxQty
\* quantities a request body can carry, zero and negative ones included
AnyQuantities == -1..MaxQty
Stocks == {1, MaxQty}

\* ------------------------------------------------------------ data shapes
NoProduct == [live |-> FALSE, price |-> 0, stock |-> 0]
\* id counts the cart documents created for the account so far: the _id of
\* the document when one exists
NoCart == [exists |-> FALSE, id |-> 0, products |-> << >>, totalPrice |-> 0]
EmptyDetails == [gateway |-> ""]
NoResp == [op |-> "", code |-> 0, error |-> "", detail |-> "", key |-> ""]
Idle == [pc |-> "idle", ref |-> 0, cart |-> "", was |-> "", raced |-> FALSE]
CancelIdle == [pc |-> "idle", id |-> 0]

NameOf(p) == <<"name", p>>
ImageOf(p) == <<"image", p>>

SecretKey == "sk_live"
\* a digest that leaves the key out
HmacNoKey(key, body) == <<"sha512", body>>

\* crypto.createHmac("sha512", key).update(JSON.stringify(body)).digest("hex")
Hmac(key, body) == <<"sha512", key, body>>

VARIABLES
    products,    \* Product collection: id -> document
    deleted,     \* ids of products that were deleted (ids are never reused)
    carts,       \* Cart collection: one document per account, keyed by owner
    checkouts,   \* Checkout collection, in creation order; reference = index
    intents,     \* amounts of the payment intents requested from the gateway
    vp,          \* the verifyPayment request: position, locals, response
    wh,          \* the webhookHandler request: position, locals, response
    cc,          \* the cancelCheckout request: position, locals, response
    clears,      \* per checkout record: cart-clearing writes issued for it
    resp,        \* response of the request that finished last
    budget,      \* requests started so far, per bounded class
    ac,          \* addToCart requests that found no cart, before Cart.create
    auth         \* password reset: accounts' token fields, clock, requests

vars == <<products, deleted, carts, checkouts, intents, vp, wh, cc, clears,
          resp, budget, ac, auth>>

dbVars == <<products, deleted, carts, checkouts>>
reqVars == <<vp, wh, cc>>

\* ---------------------------------------------------------------- helpers
RECURSIVE SumSeq(_)
SumSeq(s) == IF s = << >> THEN 0 ELSE Head(s) + SumSeq(Tail(s))

\* Array.prototype.findIndex: first matching index, 0 when there is none
FindIndex(s, p) ==
    IF \E i \in 1..Len(s) : s[i].product = p
    THEN CHOOSE i \in 1..Len(s) :
            /\ s[i].product = p
            /\ \A j \in 1..(i - 1) : s[j].product # p
    ELSE 0

Reply(op, key, code, error, detail) ==
    [op |-> op, code |-> code, error |-> error, detail |-> detail, key |-> key]

Spend(class) == budget' = [budget EXCEPT ![class] = @ + 1]

\* ---------------------------------------------------------------- catalog
\* A delete or update request for an id that is not in the collection answers
\* 404 and writes nothing; it is not a step.
createProduct(p, price, stock) ==
    /\ UNCHANGED <<ac, auth>>
    /\ budget.catalog < MaxCatalogOps
    /\ ~products[p].live /\ p \notin deleted
    /\ products' = [products EXCEPT ![p] =
                        [live |-> TRUE, price |-> price, stock |-> stock]]
    /\ Spend("catalog")
    /\ UNCHANGED <<deleted, carts, checkouts, intents, reqVars, clears, resp>>

deleteProduct(p) ==
    /\ UNCHANGED <<ac, auth>>
    /\ budget.catalog < MaxCatalogOps
    /\ products[p].live
    /\ products' = [products EXCEPT ![p] = NoProduct]
    /\ deleted' = deleted \cup {p}
    /\ Spend("catalog")
    /\ UNCHANGED <<carts, checkouts, intents, reqVars, clears, resp>>

\* findByIdAndUpdate(id, req.body) with a body that sets the price
updateProduct(p, price) ==
    /\ UNCHANGED <<ac, auth>>
    /\ budget.catalog < MaxCatalogOps
    /\ products[p].live
    /\ products' = [products EXCEPT ![p].price = price]
    /\ Spend("catalog")
    /\ UNCHANGED <<deleted, carts, checkouts, intents, reqVars, clears, resp>>

\* ------------------------------------------------------------------- cart
\* cart.products.reduce((total, item) => total + product.price * item.quantity)
\* with the one product document the handler loaded
ReduceOneProduct(items, product) ==
    SumSeq([i \in 1..Len(items) |-> product.price * items[i].quantity])

\* the reduce of removeFromCart, which looks each line's product up
ReducePerLine(items) ==
    SumSeq([i \in 1..Len(items) |->
                products[items[i].product].price * items[i].quantity])

\* a line whose product is already in the cart is appended once more
AppendLine(items, p, q) == Append(items, [product |-> p, quantity |-> q])

\* existingProductIndex > -1 ? set that line's quantity : push a new line
SetQuantity(items, p, q) ==
    IF FindIndex(items, p) > 0
    THEN [items EXCEPT ![FindIndex(items, p)].quantity = q]
    ELSE Append(items, [product |-> p, quantity |-> q])

\* a line schema without a lower bound
AnyQuantity(q) == TRUE

\* the Cart schema's validator of a line's quantity, run by cart.save()
ValidQuantity(q) == q >= 1

\* a Cart collection without an index on the owner
NoDuplicateKey(u) == FALSE

\* the unique index on the cart's owner: Cart.create is refused for an
\* account that has a cart
DuplicateKey(u) == carts[u].exists

\* addToCart from its look at the cart's lines to its response, on the cart
\* document it holds and with the product document it loaded
addToCartSave(u, cart, p, q, product) ==
    LET k == FindIndex(cart.products, p)
        items == SetQuantity(cart.products, p, q)
    IN IF ~ValidQuantity(q)
       THEN \* cart.save() rejects: the document stays as it is in the store
            /\ carts' = [carts EXCEPT ![u] = cart]
            /\ resp' = Reply("addToCart", u, 500, "ValidationError", "")
       ELSE /\ carts' = [carts EXCEPT ![u] =
                    [cart EXCEPT !.products = items,
                                 !.totalPrice = ReduceOneProduct(items, product)]]
            /\ resp' = Reply("addToCart", u, 200, "",
                    IF k > 0 THEN cart.products[k].quantity ELSE 0)

\* Cart.create({ user, products: [], totalPrice: 0 })
NewCart(u) ==
    [exists |-> TRUE, id |-> carts[u].id + 1, products |-> << >>,
     totalPrice |-> 0]

\* addToCart up to Cart.findOne, and to its end when a cart was found; when
\* none was found, to its end as well if no other request runs before its
\* Cart.create (atOnce), and else up to that call
addToCartRun(u, p, q, atOnce) ==
    /\ budget.cart < MaxCartOps
    /\ Spend("cart")
    /\ UNCHANGED <<products, deleted, checkouts, intents, reqVars, clears,
                   auth>>
    /\ IF ~products[p].live
       THEN /\ resp' = Reply("addToCart", u, 404, "Product not found", "")
            /\ UNCHANGED <<carts, ac>>
       ELSE IF products[p].stock < q
       THEN /\ resp' = Reply("addToCart", u, 400,
                             "Requested quantity not available", "")
            /\ UNCHANGED <<carts, ac>>
       ELSE IF ~carts[u].exists /\ ~atOnce
       THEN /\ ac' = Append(ac, [user |-> u, product |-> p, quantity |-> q,
                                 price |-> products[p].price])
            /\ UNCHANGED <<carts, resp>>
       ELSE /\ addToCartSave(u, IF carts[u].exists THEN carts[u] ELSE NewCart(u),
                             p, q, products[p])
            /\ UNCHANGED ac

\* addToCart with nothing running between its awaits
addToCart(u, p, q) == addToCartRun(u, p, q, TRUE)

\* addToCart up to the await of Cart.create
addToCartFind(u, p, q) == addToCartRun(u, p, q, FALSE)

\* addToCart from Cart.create to its end, for a request that found no cart
addToCartCreate(n) ==
    LET r == ac[n]
    IN /\ ac' = [m \in 1..(Len(ac) - 1) |-> IF m < n THEN ac[m] ELSE ac[m + 1]]
       /\ UNCHANGED <<products, deleted, checkouts, intents, reqVars, clears,
                      budget, auth>>
       /\ IF DuplicateKey(r.user)
          THEN /\ resp' = Reply("addToCart", r.user, 500,
                                "E11000 duplicate key error", "")
               /\ UNCHANGED carts
          ELSE addToCartSave(r.user, NewCart(r.user), r.product, r.quantity,
                             [price |-> r.price])

removeFromCart(u, p) ==
    /\ UNCHANGED <<ac, auth>>
    /\ budget.cart < MaxCartOps
    /\ Spend("cart")
    /\ UNCHANGED <<products, deleted, checkouts, intents, reqVars, clears>>
    /\ IF ~carts[u].exists
       THEN /\ resp' = Reply("removeFromCart", u, 404, "Cart not found", "")
            /\ UNCHANGED carts
       ELSE LET Keep(item) == item.product # p
                items == SelectSeq(carts[u].products, Keep)
            IN IF \E i \in 1..Len(items) : ~products[items[i].product].live
               THEN \* products.find(...) is undefined: TypeError, no save
                    /\ resp' = Reply("removeFromCart", u, 500, "TypeError", "")
                    /\ UNCHANGED carts
               ELSE /\ carts' = [carts EXCEPT ![u].products = items,
                                              ![u].totalPrice = ReducePerLine(items)]
                    /\ resp' = Reply("removeFromCart", u, 200, "", "")

updateCartQuantity(u, p, q) ==
    /\ UNCHANGED <<ac, auth>>
    /\ budget.cart < MaxCartOps
    /\ Spend("cart")
    /\ UNCHANGED <<products, deleted, checkouts, intents, reqVars, clears>>
    /\ IF q < 1
       THEN /\ resp' = Reply("updateCartQuantity", u, 400,
                             "Please provide a valid quantity", "")
            /\ UNCHANGED carts
       ELSE IF ~carts[u].exists
       THEN /\ resp' = Reply("updateCartQuantity", u, 404, "Cart not found", "")
            /\ UNCHANGED carts
       ELSE IF FindIndex(carts[u].products, p) = 0
       THEN /\ resp' = Reply("updateCartQuantity", u, 404,
                             "Product not found in cart", "")
            /\ UNCHANGED carts
       ELSE IF ~products[p].live
       THEN \* product is null: reading product.stock throws
            /\ resp' = Reply("updateCartQuantity", u, 500, "TypeError", "")
            /\ UNCHANGED carts
       ELSE IF products[p].stock < q
       THEN /\ resp' = Reply("updateCartQuantity", u, 400,
                             "Requested quantity not available", "")
            /\ UNCHANGED carts
       ELSE LET items == SetQuantity(carts[u].products, p, q)
            IN /\ carts' = [carts EXCEPT ![u].products = items,
                    ![u].totalPrice = ReduceOneProduct(items, products[p])]
               /\ resp' = Reply("updateCartQuantity", u, 200, "", "")

clearCart(u) ==
    /\ UNCHANGED <<ac, auth>>
    /\ budget.cart < MaxCartOps
    /\ Spend("cart")
    /\ UNCHANGED <<products, deleted, checkouts, intents, reqVars, clears>>
    /\ IF ~carts[u].exists
       THEN /\ resp' = Reply("clearCart", u, 404, "Cart not found", "")
            /\ UNCHANGED carts
       ELSE /\ carts' = [carts EXCEPT ![u].products = << >>,
                                      ![u].totalPrice = 0]
            /\ resp' = Reply("clearCart", u, 200, "", "")

\* --------------------------------------------------------------- checkout
PaymentMethod == "paystack"
ShippingAddress == "12 Allen Avenue"

\* what the gateway knows about the transaction of a reference
GatewayData(ref) ==
    [id |-> <<"txn", ref>>, paid_at |-> <<"paid", ref>>, channel |-> "card",
     currency |-> "NGN", ip_address |-> <<"ip", ref>>]

\* cart.products.map(item => ({...})) over the populated cart
Snapshot(items) ==
    [i \in 1..Len(items) |->
        [product |-> items[i].product,
         name |-> NameOf(items[i].product),
         price |-> products[items[i].product].price,
         quantity |-> items[i].quantity,
         image |-> ImageOf(items[i].product)]]

\* an amount passed on in major units
AmountUnscaled(totalPrice) == totalPrice

\* Math.round(cart.totalPrice * 100)
Amount(totalPrice) == totalPrice * 100

\* a check that only looks for a missing cart
CartIsMissing(cart) == ~cart.exists

\* if (!cart || cart.products.length === 0)
CartIsEmpty(cart) == ~cart.exists \/ Len(cart.products) = 0

\* a snapshot that never looks at the populated product
NeverUnavailable(item) == FALSE

\* if (!item.product): populate left null for a deleted product
Unavailable(item) == ~products[item.product].live

\* a create that does not depend on the gateway's answer
CreateAnyway(gatewayUp) == TRUE

\* Checkout.create comes after await transaction.initialize, which throws
\* when the gateway fails
ReachesCreate(gatewayUp) == gatewayUp

initializeCheckout(u, fieldsGiven, gatewayUp) ==
    /\ UNCHANGED <<ac, auth>>
    /\ Len(intents) < MaxCheckouts
    /\ UNCHANGED <<products, deleted, carts, reqVars, budget>>
    /\ IF ~fieldsGiven
       THEN /\ resp' = Reply("initializeCheckout", u, 400,
                 "Shipping address and payment method are required", "")
            /\ UNCHANGED <<checkouts, intents, clears>>
       ELSE IF CartIsEmpty(carts[u])
       THEN /\ resp' = Reply("initializeCheckout", u, 400, "Cart is empty", "")
            /\ UNCHANGED <<checkouts, intents, clears>>
       ELSE IF \E i \in 1..Len(carts[u].products) :
                    Unavailable(carts[u].products[i])
       THEN /\ resp' = Reply("initializeCheckout", u, 500,
                 "One or more products in cart are no longer available", "")
            /\ UNCHANGED <<checkouts, intents, clears>>
       ELSE /\ intents' = Append(intents,
                    [user |-> u, amount |-> Amount(carts[u].totalPrice),
                     ok |-> gatewayUp])
            /\ IF ~ReachesCreate(gatewayUp)
               THEN /\ resp' = Reply("initializeCheckout", u, 500,
                                     "GatewayError", "")
                    /\ UNCHANGED <<checkouts, clears>>
               ELSE /\ checkouts' = Append(checkouts,
                        [user |-> u, cart |-> u, cartId |-> carts[u].id,
                         items |-> Snapshot(carts[u].products),
                         totalPrice |-> carts[u].totalPrice,
                         paymentMethod |-> PaymentMethod,
                         shippingAddress |-> ShippingAddress,
                         paymentReference |-> Len(intents) + 1,
                         status |-> "pending",
                         paymentDetails |-> EmptyDetails])
                    /\ clears' = Append(clears, 0)
                    /\ resp' = Reply("initializeCheckout", u, 201, "",
                                     Len(intents) + 1)

\* Checkout.findOne{AndUpdate}({ paymentReference: reference }): id or 0
ByReference(ref) ==
    IF \E i \in 1..Len(checkouts) : checkouts[i].paymentReference = ref
    THEN CHOOSE i \in 1..Len(checkouts) : checkouts[i].paymentReference = ref
    ELSE 0

\* an update document that also refreshes the total from the live cart
PollUpdateRetotal(rec, data) ==
    [rec EXCEPT !.status = "completed",
                !.totalPrice = carts[rec.cart].totalPrice,
                !.paymentDetails =
                    [gateway |-> "paystack", transactionId |-> data.id,
                     paidAt |-> data.paid_at, channel |-> data.channel,
                     currency |-> data.currency, ipAddress |-> data.ip_address]]

\* the update document of verifyPayment's success branch
PollUpdate(rec, data) ==
    [rec EXCEPT !.status = "completed",
                !.paymentDetails =
                    [gateway |-> "paystack", transactionId |-> data.id,
                     paidAt |-> data.paid_at, channel |-> data.channel,
                     currency |-> data.currency, ipAddress |-> data.ip_address]]

\* the update document of webhookHandler
WebhookUpdate(rec, data) ==
    [rec EXCEPT !.status = "completed",
                !.paymentDetails =
                    [gateway |-> "paystack", transactionId |-> data.id,
                     paidAt |-> data.paid_at, channel |-> data.channel,
                     currency |-> data.currency]]

\* a non-success update that marks the record paid
FailUpdateCompletes(rec) == [rec EXCEPT !.status = "completed"]

\* the update document of verifyPayment's non-success branch
FailUpdate(rec) == [rec EXCEPT !.status = "failed"]

\* Cart.findOneAndUpdate({ _id }, { products: [], totalPrice: 0 })
Emptied(cart) == [cart EXCEPT !.products = << >>, !.totalPrice = 0]

Begin(ref) == [Idle EXCEPT !.ref = ref]

\* the response of a confirmation handler, with what the run saw: the status
\* the record had before the handler's update and whether the other
\* confirmation handler was between its two writes for the same reference
Answer(op, slot, code, error) ==
    Reply(op, slot.ref, code, error, [was |-> slot.was, raced |-> slot.raced])

\* .populate("cart"): the cart document the record refers to, when the
\* collection still holds it
Populated(rec) == carts[rec.cart].exists /\ carts[rec.cart].id = rec.cartId

\* a clear that writes nothing
KeepCarts(rec) == carts

\* a clear whose filter matches every cart
ClearEveryCart(rec) == [u \in Users |-> Emptied(carts[u])]

\* Cart.findOneAndUpdate({ _id: checkout.cart._id }, ...): no match, no write
ClearCartOf(rec) ==
    IF Populated(rec) THEN [carts EXCEPT ![rec.cart] = Emptied(@)] ELSE carts

\* verifyPayment up to and including its write to the checkout record
verifyPayment(ref, status) ==
    /\ UNCHANGED <<ac, auth>>
    /\ vp.pc = "idle"
    /\ budget.signal < MaxSignals
    /\ Spend("signal")
    /\ UNCHANGED <<products, deleted, carts, intents, cc, clears>>
    /\ LET i == ByReference(ref)
           fail == Answer("verifyPayment", Begin(ref), 400,
                          "Payment verification failed")
       IN IF status = "error"
          THEN \* paystackClient.transaction.verify rejects
               /\ resp' = fail
               /\ UNCHANGED <<checkouts, vp, wh>>
          ELSE IF status = "success"
          THEN IF i = 0
               THEN /\ resp' = Answer("verifyPayment", Begin(ref), 404,
                                      "Checkout not found")
                    /\ UNCHANGED <<checkouts, vp, wh>>
               ELSE /\ checkouts' = [checkouts EXCEPT
                            ![i] = PollUpdate(@, GatewayData(ref))]
                    /\ IF ~Populated(checkouts[i])
                       THEN \* populate gives null: checkout.cart._id throws
                            /\ resp' = fail
                            /\ UNCHANGED <<vp, wh>>
                       ELSE LET race == wh.pc = "clear" /\ wh.ref = ref
                            IN /\ vp' = [Begin(ref) EXCEPT
                                    !.pc = "clear",
                                    !.cart = checkouts[i].cart,
                                    !.was = checkouts[i].status,
                                    !.raced = race]
                               /\ wh' = [wh EXCEPT !.raced = @ \/ race]
                               /\ UNCHANGED resp
          ELSE /\ checkouts' = IF i = 0 THEN checkouts
                               ELSE [checkouts EXCEPT ![i] = FailUpdate(@)]
               /\ resp' = fail
               /\ UNCHANGED <<vp, wh>>

\* verifyPayment from its cart write to its response
verifyPaymentClear ==
    /\ UNCHANGED <<ac, auth>>
    /\ vp.pc = "clear"
    /\ carts' = ClearCartOf(checkouts[ByReference(vp.ref)])
    /\ clears' = [clears EXCEPT ![ByReference(vp.ref)] = @ + 1]
    /\ resp' = Answer("verifyPayment", vp, 200, "")
    /\ vp' = Idle
    /\ UNCHANGED <<products, deleted, checkouts, intents, wh, cc, budget>>

\* an event test that takes every charge event for a success
IsAnyCharge(event) == TRUE

\* if (event.event === "charge.success")
IsChargeSuccess(event) == event = "charge.success"

\* webhookHandler up to and including its write to the checkout record
webhookHandler(event, ref, key) ==
    /\ UNCHANGED <<ac, auth>>
    /\ wh.pc = "idle"
    /\ budget.signal < MaxSignals
    /\ Spend("signal")
    /\ UNCHANGED <<products, deleted, carts, intents, cc, clears>>
    /\ LET body == [event |-> event, data |-> GatewayData(ref)]
           hash == Hmac(SecretKey, body)
           signature == Hmac(key, body)
           i == ByReference(ref)
       IN IF hash # signature
          THEN /\ resp' = Answer("webhookHandler", Begin(ref), 400,
                                 "Invalid signature")
               /\ UNCHANGED <<checkouts, vp, wh>>
          ELSE IF IsChargeSuccess(event) /\ i # 0
          THEN /\ checkouts' = [checkouts EXCEPT
                        ![i] = WebhookUpdate(@, body.data)]
               /\ IF ~Populated(checkouts[i])
                  THEN \* checkout.cart._id throws, next(error)
                       /\ resp' = Answer("webhookHandler", Begin(ref), 500,
                                         "TypeError")
                       /\ UNCHANGED <<vp, wh>>
                  ELSE LET race == vp.pc = "clear" /\ vp.ref = ref
                       IN /\ wh' = [Begin(ref) EXCEPT
                                !.pc = "clear",
                                !.cart = checkouts[i].cart,
                                !.was = checkouts[i].status,
                                !.raced = race]
                          /\ vp' = [vp EXCEPT !.raced = @ \/ race]
                          /\ UNCHANGED resp
          ELSE /\ resp' = Answer("webhookHandler", Begin(ref), 200, "")
               /\ UNCHANGED <<checkouts, vp, wh>>

\* webhookHandler from its cart write to its acknowledgment
webhookHandlerClear ==
    /\ UNCHANGED <<ac, auth>>
    /\ wh.pc = "clear"
    /\ carts' = ClearCartOf(checkouts[ByReference(wh.ref)])
    /\ clears' = [clears EXCEPT ![ByReference(wh.ref)] = @ + 1]
    /\ resp' = Answer("webhookHandler", wh, 200, "")
    /\ wh' = Idle
    /\ UNCHANGED <<products, deleted, checkouts, intents, vp, cc, budget>>

\* the routes registered on the checkout router after router.use(protect)
Protected == {"/initialize", "/verify/:reference", "/webhook", "/:id",
              "/history", "/:id/cancel"}

\* protect: next() is called only for the bearer token of a known account
protect(token) == token = "bearer"

\* POST /api/checkout/webhook: the router's middleware, then the handler
webhookRoute(token, event, ref, key) ==
    IF "/webhook" \in Protected /\ ~protect(token)
    THEN /\ budget.signal < MaxSignals
         /\ Spend("signal")
         /\ resp' = Answer("protect", Begin(ref), 401,
                "Not authorized to access this route: No token provided")
         /\ UNCHANGED <<dbVars, intents, reqVars, clears, ac, auth>>
    ELSE webhookHandler(event, ref, key)

\* a state check that rejects only paid records
CancellableUnlessPaid(rec) == rec.status # "completed"

\* if (checkout.status !== "pending") of cancelCheckout
Cancellable(rec) == rec.status = "pending"

\* a lookup by id alone
OwnsAny(u, rec) == TRUE

\* Checkout.findOne({ _id: req.params.id, user: req.user.id })
Owns(u, rec) == rec.user = u

\* cancelCheckout up to its save: lookup and state check
cancelCheckout(u, id) ==
    /\ UNCHANGED <<ac, auth>>
    /\ cc.pc = "idle"
    /\ budget.signal < MaxSignals
    /\ Spend("signal")
    /\ UNCHANGED <<dbVars, intents, vp, wh, clears>>
    /\ IF id \notin 1..Len(checkouts) \/ ~Owns(u, checkouts[id])
       THEN /\ resp' = Reply("cancelCheckout", id, 404,
                             "Checkout not found", "")
            /\ UNCHANGED cc
       ELSE IF ~Cancellable(checkouts[id])
       THEN /\ resp' = Reply("cancelCheckout", id, 400,
                             "Cannot cancel checkout with status: ",
                             checkouts[id].status)
            /\ UNCHANGED cc
       ELSE /\ cc' = [pc |-> "save", id |-> id]
            /\ UNCHANGED resp

\* a save that also empties the record's cart
cancelCheckoutSaveEmptying ==
    /\ UNCHANGED <<ac, auth>>
    /\ cc.pc = "save"
    /\ checkouts' = [checkouts EXCEPT ![cc.id].status = "cancelled"]
    /\ carts' = ClearCartOf(checkouts[cc.id])
    /\ resp' = Reply("cancelCheckout", cc.id, 200, "", "cancelled")
    /\ cc' = CancelIdle
    /\ UNCHANGED <<products, deleted, intents, vp, wh, clears, budget>>

\* checkout.status = "cancelled"; await checkout.save(): writes the one
\* modified path
cancelCheckoutSave ==
    /\ UNCHANGED <<ac, auth>>
    /\ cc.pc = "save"
    /\ checkouts' = [checkouts EXCEPT ![cc.id].status = "cancelled"]
    /\ resp' = Reply("cancelCheckout", cc.id, 200, "", "cancelled")
    /\ cc' = CancelIdle
    /\ UNCHANGED <<products, deleted, carts, intents, vp, wh, clears, budget>>

\* the cart document of an account leaves the collection by some other hand
\* than the handlers above, none of which deletes a cart
cartLost(u) ==
    /\ UNCHANGED <<ac, auth>>
    /\ budget.cart < MaxCartOps
    /\ carts[u].exists
    /\ carts' = [carts EXCEPT ![u] = [NoCart EXCEPT !.id = carts[u].id]]
    /\ Spend("cart")
    /\ UNCHANGED <<products, deleted, checkouts, intents, reqVars, clears, resp>>

\* ---------------------------------------------------------- password reset
\* 10 * 60 * 1000 ms, in clock ticks
TokenLife == 2

\* crypto.createHash("sha256").update(token).digest("hex")
Sha256(token) == <<"sha256", token>>

\* resetPasswordToken and resetPasswordExpire of an account, both undefined
NoToken == [resetPasswordToken |-> << >>, resetPasswordExpire |-> 0]

\* a reset that leaves the token fields as they are
TokenKept(fields) == fields

\* user.resetPasswordToken = undefined; user.resetPasswordExpire = undefined
TokenCleared(fields) == NoToken

\* account: the two token fields of each user document; now: Date.now();
\* issued: tokens drawn from crypto.randomBytes so far (token n is the n-th);
\* latest: the token of each account's last forgotPassword; fp, rp: the
\* forgotPassword requests awaiting sendEmail and the resetPassword
\* requests awaiting user.save(); used: tokens of finished resets; unsent:
\* tokens whose email failed; resets: resetPassword requests started
AuthInit ==
    [account |-> [u \in Users |-> NoToken],
     now |-> 0,
     issued |-> 0,
     latest |-> [u \in Users |-> 0],
     fp |-> {},
     rp |-> {},
     used |-> {},
     unsent |-> {},
     resets |-> 0]

shopVars == <<products, deleted, carts, checkouts, intents, vp, wh, cc, clears,
              budget, ac>>

\* getResetPasswordToken on the account's document
getResetPasswordToken(token) ==
    [resetPasswordToken |-> Sha256(token),
     resetPasswordExpire |-> auth.now + TokenLife]

\* forgotPassword up to the await of sendEmail, for the email of account u
forgotPassword(u) ==
    /\ auth.issued < MaxForgot
    /\ LET token == auth.issued + 1
       IN auth' = [auth EXCEPT
                !.account[u] = getResetPasswordToken(token),
                !.issued = token,
                !.latest[u] = token,
                !.fp = @ \cup {[user |-> u, token |-> token]}]
    /\ UNCHANGED <<shopVars, resp>>

\* sendEmail resolves
forgotPasswordSent(r) ==
    /\ r \in auth.fp
    /\ auth' = [auth EXCEPT !.fp = @ \ {r}]
    /\ resp' = Reply("forgotPassword", r.token, 200, "", "Email sent")
    /\ UNCHANGED shopVars

\* sendEmail rejects: the catch clears the fields of the document the
\* request holds and saves it
forgotPasswordUnsent(r) ==
    /\ r \in auth.fp
    /\ auth' = [auth EXCEPT
            !.fp = @ \ {r},
            !.account[r.user] = TokenCleared(@),
            !.unsent = @ \cup {r.token}]
    /\ resp' = Reply("forgotPassword", r.token, 500,
                     "Email could not be sent", "")
    /\ UNCHANGED shopVars

\* User.findOne({ resetPasswordToken, resetPasswordExpire: { $gt: now } })
FindByToken(hash) ==
    {u \in Users :
        /\ auth.account[u].resetPasswordToken = hash
        /\ auth.account[u].resetPasswordExpire > auth.now}

\* resetPassword up to the await of user.save()
resetPassword(token) ==
    /\ auth.resets < MaxReset
    /\ UNCHANGED shopVars
    /\ LET found == FindByToken(Sha256(token))
       IN IF found = {}
          THEN /\ resp' = Reply("resetPassword", token, 400,
                                "Invalid token", "")
               /\ auth' = [auth EXCEPT !.resets = @ + 1]
          ELSE /\ auth' = [auth EXCEPT
                        !.resets = @ + 1,
                        !.rp = @ \cup {[user |-> CHOOSE u \in found : TRUE,
                                        token |-> token]}]
               /\ UNCHANGED resp

\* user.save() with the new password and the cleared fields, then the
\* response
resetPasswordSave(r) ==
    /\ r \in auth.rp
    /\ auth' = [auth EXCEPT
            !.rp = @ \ {r},
            !.account[r.user] = TokenCleared(@),
            !.used = @ \cup {r.token}]
    /\ resp' = Reply("resetPassword", r.token, 200, "", r.user)
    /\ UNCHANGED shopVars

\* time passes
tick ==
    /\ auth.now < MaxClock
    /\ auth' = [auth EXCEPT !.now = @ + 1]
    /\ UNCHANGED <<shopVars, resp>>

\* ------------------------------------------------------------------- init
Init ==
    /\ products = [p \in ProductIds |-> NoProduct]
    /\ deleted = {}
    /\ carts = [u \in Users |-> NoCart]
    /\ checkouts = << >>
    /\ intents = << >>
    /\ vp = Idle
    /\ wh = Idle
    /\ cc = CancelIdle
    /\ clears = << >>
    /\ resp = NoResp
    /\ budget = [catalog |-> 0, cart |-> 0, signal |-> 0]
    /\ ac = << >>
    /\ auth = AuthInit

CatalogNext ==
    \/ \E p \in ProductIds, price \in Prices, stock \in Stocks :
            createProduct(p, price, stock)
    \/ \E p \in ProductIds : deleteProduct(p)
    \/ \E p \in ProductIds, price \in Prices : updateProduct(p, price)

CartNext ==
    \/ \E u \in Users, p \in ProductIds, q \in Quantities : addToCart(u, p, q)
    \/ \E u \in Users, p \in ProductIds : removeFromCart(u, p)
    \/ \E u \in Users, p \in ProductIds, q \in Quantities :
            updateCartQuantity(u, p, q)
    \/ \E u \in Users : clearCart(u)

GatewayStatuses == {"success", "failed", "error"}
Events == {"charge.success", "charge.failed"}
Keys == {SecretKey, "forged"}
Tokens == {"", "bearer"}
References == 1..(MaxCheckouts + 1)

CheckoutNext ==
    \/ \E u \in Users, fieldsGiven \in BOOLEAN, gatewayUp \in BOOLEAN :
            initializeCheckout(u, fieldsGiven, gatewayUp)
    \/ \E ref \in References, status \in GatewayStatuses :
            verifyPayment(ref, status)
    \/ \E token \in Tokens, event \in Events, ref \in References, key \in Keys :
            webhookRoute(token, event, ref, key)
    \/ \E u \in Users, id \in References : cancelCheckout(u, id)

\* a request arrives and runs up to its first await after a write
Arrive == CatalogNext \/ CartNext \/ CheckoutNext

\* a request in flight resumes after an await
Resume == verifyPaymentClear \/ webhookHandlerClear \/ cancelCheckoutSave

Next == Arrive \/ Resume

\* every interleaving of the requests' steps
Spec == Init /\ [][Next]_vars

\* Spec with every confirmation handler allowed to run to its end: a handler
\* that awaits its cart write is resumed
SpecFair ==
    /\ Spec
    /\ WF_vars(verifyPaymentClear)
    /\ WF_vars(webhookHandlerClear)

\* requests delivered one after another: none arrives while one is in flight
NoneInFlight == vp.pc = "idle" /\ wh.pc = "idle" /\ cc.pc = "idle"

SeqNext ==
    \/ \E p \in ProductIds, price \in Prices, stock \in Stocks :
            NoneInFlight /\ createProduct(p, price, stock)
    \/ \E p \in ProductIds : NoneInFlight /\ deleteProduct(p)
    \/ \E p \in ProductIds, price \in Prices :
            NoneInFlight /\ updateProduct(p, price)
    \/ \E u \in Users, p \in ProductIds, q \in Quantities :
            NoneInFlight /\ addToCart(u, p, q)
    \/ \E u \in Users, p \in ProductIds : NoneInFlight /\ removeFromCart(u, p)
    \/ \E u \in Users, p \in ProductIds, q \in Quantities :
            NoneInFlight /\ updateCartQuantity(u, p, q)
    \/ \E u \in Users : NoneInFlight /\ clearCart(u)
    \/ \E u \in Users, fieldsGiven \in BOOLEAN, gatewayUp \in BOOLEAN :
            NoneInFlight /\ initializeCheckout(u, fieldsGiven, gatewayUp)
    \/ \E ref \in References, status \in GatewayStatuses :
            NoneInFlight /\ verifyPayment(ref, status)
    \/ \E token \in Tokens, event \in Events, ref \in References, key \in Keys :
            NoneInFlight /\ webhookRoute(token, event, ref, key)
    \/ \E u \in Users, id \in References :
            NoneInFlight /\ cancelCheckout(u, id)
    \/ verifyPaymentClear
    \/ webhookHandlerClear
    \/ cancelCheckoutSave

SpecSeq == Init /\ [][SeqNext]_vars

\* every interleaving, in a store from which a cart document can disappear
CartLossNext == Next \/ \E u \in Users : cartLost(u)

SpecCartLoss == Init /\ [][CartLossNext]_vars

\* the catalog and cart requests alone, with any quantity in the request
\* body and with addToCart interleaving at its Cart.create
CartRaceNext ==
    \/ CatalogNext
    \/ \E u \in Users, p \in ProductIds, q \in AnyQuantities :
            addToCartFind(u, p, q)
    \/ \E n \in 1..Len(ac) : addToCartCreate(n)
    \/ \E u \in Users, p \in ProductIds : removeFromCart(u, p)
    \/ \E u \in Users, p \in ProductIds, q \in AnyQuantities :
            updateCartQuantity(u, p, q)
    \/ \E u \in Users : clearCart(u)

SpecCartRace == Init /\ [][CartRaceNext]_vars

\* tokens a resetPassword request can carry: those drawn and one never drawn
Tokens256 == 1..(MaxForgot + 1)

InFlightAuth == [user : Users, token : Tokens256]

\* the password reset requests alone
AuthNext ==
    \/ \E u \in Users : forgotPassword(u)
    \/ \E r \in InFlightAuth : forgotPasswordSent(r)
    \/ \E r \in InFlightAuth : forgotPasswordUnsent(r)
    \/ \E token \in Tokens256 : resetPassword(token)
    \/ \E r \in InFlightAuth : resetPasswordSave(r)
    \/ tick

SpecAuth == Init /\ [][AuthNext]_vars

\* ================================================================ claims
Terminal == {"completed", "failed", "cancelled"}
Confirm == {"verifyPayment", "webhookHandler"}
Records == 1..Len(checkouts)

LineSum(items) ==
    SumSeq([k \in 1..Len(items) |-> items[k].quantity * items[k].price])

\* C1: once a record's status is completed, failed or cancelled, no step of
\* verifyPayment, webhookHandler or cancelCheckout changes it.
C1_TerminalStatusIsFinal ==
    [][\A i \in Records :
            checkouts[i].status \in Terminal
                => checkouts'[i].status = checkouts[i].status]_vars

\* C2: when a successful poll and a signed charge.success webhook for the
\* reference of a pending record overlap, each answers without an error, and
\* once both have answered the cart was cleared exactly once and the record
\* is completed.
C2_RaceClearsOnce ==
    (resp.op \in Confirm /\ resp.detail.raced)
        => /\ resp.code = 200
           /\ (NoneInFlight /\ budget.signal = 2)
                => /\ clears[ByReference(resp.key)] = 1
                   /\ checkouts[ByReference(resp.key)].status = "completed"

\* C3: with completion signals delivered one after another, the cart-clearing
\* update is executed at most once for every record.
C3_ClearAtMostOnce == \A i \in Records : clears[i] <= 1

\* C4: a confirmation of a record that was already completed leaves the
\* record completed and the cart's line items and total as they were.
C4_RedeliveryKeepsCart ==
    [][(\/ verifyPaymentClear /\ vp.was = "completed"
        \/ webhookHandlerClear /\ wh.was = "completed")
            => /\ carts' = carts
               /\ checkouts' = checkouts]_vars

\* C5: re-confirming a completed record leaves every field of the record
\* unchanged, and the handler answers with success.
C5_ReconfirmChangesNothing ==
    [][/\ \A ref \in References :
            LET i == ByReference(ref)
            IN (/\ i # 0
                /\ checkouts[i].status = "completed"
                /\ \/ verifyPayment(ref, "success")
                   \/ webhookHandler("charge.success", ref, SecretKey))
                    => checkouts'[i] = checkouts[i]
       /\ (\/ verifyPaymentClear /\ vp.was = "completed"
           \/ webhookHandlerClear /\ wh.was = "completed")
            => resp'.code = 200]_vars

\* C6: when cancelCheckout writes after a confirmation has completed the
\* record, the cancellation fails with a state error and the record stays
\* completed; no record is ever cancelled while carrying a payment
\* confirmation.
C6_CancelLosesToConfirmation ==
    [][/\ (cancelCheckoutSave /\ checkouts[cc.id].status = "completed")
            => /\ checkouts'[cc.id].status = "completed"
               /\ resp'.code = 400
       /\ \A i \in Records :
            ~(/\ checkouts'[i].status = "cancelled"
              /\ checkouts'[i].paymentDetails # EmptyDetails)]_vars

\* C7: cancelCheckout by the owner of a record that is not pending answers
\* 400 with a message naming the record's status, and changes no record and
\* schedules no save.
C7_CancelGuard ==
    [][\A u \in Users, id \in References :
            (/\ id \in Records
             /\ checkouts[id].user = u
             /\ checkouts[id].status # "pending"
             /\ cancelCheckout(u, id))
                => /\ resp' = Reply("cancelCheckout", id, 400,
                                    "Cannot cancel checkout with status: ",
                                    checkouts[id].status)
                   /\ checkouts' = checkouts
                   /\ cc' = cc]_vars

C7_Witness ==
    /\ resp.op = "cancelCheckout"
    /\ resp.code = 400
    /\ resp.detail = "completed"
    /\ checkouts[resp.key].status = "completed"

\* C8: no step changes the line-item snapshot or the total price of an
\* existing record.
C8_SnapshotImmutable ==
    [][\A i \in Records :
            /\ checkouts'[i].items = checkouts[i].items
            /\ checkouts'[i].totalPrice = checkouts[i].totalPrice]_vars

\* a record that reached a terminal status after the catalog price of one of
\* its products changed or the product was deleted
C8_Witness ==
    \E i \in Records :
        /\ checkouts[i].status \in Terminal
        /\ \E k \in 1..Len(checkouts[i].items) :
                products[checkouts[i].items[k].product].price
                    # checkouts[i].items[k].price

\* C9: the stored total price of every record equals the sum over its
\* snapshot line items of quantity times snapshot unit price.
C9_TotalIsSnapshotSum ==
    \A i \in Records : checkouts[i].totalPrice = LineSum(checkouts[i].items)

\* C10: after a successful cart mutation the cart's total price is the sum
\* over its lines of the line's own product's catalog price times quantity.
C10_CartTotalPerLine ==
    [][(budget'.cart # budget.cart /\ resp'.code = 200)
            => LET cart == carts'[resp'.key]
               IN (\A k \in 1..Len(cart.products) :
                        products[cart.products[k].product].live)
                    => cart.totalPrice = ReducePerLine(cart.products)]_vars

\* C11: the amount of the payment intent requested for a record is 100 times
\* the total price stored on that record.
C11_AmountMatchesTotal ==
    \A i \in Records :
        /\ checkouts[i].paymentReference \in 1..Len(intents)
        /\ intents[checkouts[i].paymentReference].amount
                = 100 * checkouts[i].totalPrice

\* a record for a cart of more than one unit was charged
C11_Witness ==
    \E i \in Records :
        /\ checkouts[i].totalPrice > 1
        /\ intents[checkouts[i].paymentReference].amount > 100

\* C12: initializeCheckout for an account whose cart is absent or has no line
\* items answers with the empty-cart error (once the request fields are
\* given), creates no record and requests no payment intent.
C12_EmptyCartRejected ==
    [][\A u \in Users, fieldsGiven \in BOOLEAN, gatewayUp \in BOOLEAN :
            (/\ ~carts[u].exists \/ carts[u].products = << >>
             /\ initializeCheckout(u, fieldsGiven, gatewayUp))
                => /\ checkouts' = checkouts
                   /\ intents' = intents
                   /\ resp'.code = 400
                   /\ fieldsGiven => resp'.error = "Cart is empty"]_vars

\* the rejection of a cart that exists and was emptied
C12_Witness ==
    /\ resp.op = "initializeCheckout"
    /\ resp.error = "Cart is empty"
    /\ carts[resp.key].exists
    /\ carts[resp.key].products = << >>

\* C13: initializeCheckout on a cart with a line whose product was deleted
\* fails, creates no record and requests no payment intent.
C13_StaleProductRejected ==
    [][\A u \in Users, fieldsGiven \in BOOLEAN, gatewayUp \in BOOLEAN :
            (/\ \E k \in 1..Len(carts[u].products) :
                    carts[u].products[k].product \in deleted
             /\ initializeCheckout(u, fieldsGiven, gatewayUp))
                => /\ checkouts' = checkouts
                   /\ intents' = intents
                   /\ resp'.code >= 400]_vars

C13_Witness ==
    /\ resp.op = "initializeCheckout"
    /\ resp.error = "One or more products in cart are no longer available"
    /\ \E k \in 1..Len(carts[resp.key].products) :
            carts[resp.key].products[k].product \in deleted

\* C14: a record is persisted only for an intent the gateway issued: every
\* record carries the reference of a successful intent, no two records share
\* one, and a failed create-intent call leaves no record.
C14_RecordHasGatewayReference ==
    /\ \A i \in Records :
        /\ checkouts[i].paymentReference \in 1..Len(intents)
        /\ intents[checkouts[i].paymentReference].ok
    /\ \A i, j \in Records :
        checkouts[i].paymentReference = checkouts[j].paymentReference => i = j
    /\ Len(checkouts) = Cardinality({n \in 1..Len(intents) : intents[n].ok})

\* the gateway failed on a cart that could be checked out
C14_Witness ==
    /\ resp.op = "initializeCheckout"
    /\ resp.error = "GatewayError"
    /\ \E n \in 1..Len(intents) : ~intents[n].ok

\* C15: a webhook request whose signature was not made with the secret key is
\* answered with the rejection and changes no record, no cart and no request
\* in flight: the comparison comes before every write of webhookHandler.
C15_BadSignatureRejected ==
    [][\A event \in Events, ref \in References, key \in Keys :
            (key # SecretKey /\ webhookHandler(event, ref, key))
                => /\ resp'.code = 400
                   /\ resp'.error = "Invalid signature"
                   /\ checkouts' = checkouts
                   /\ carts' = carts
                   /\ wh' = wh]_vars

\* a forged webhook for the reference of a pending record was rejected
C15_Witness ==
    /\ resp.op = "webhookHandler"
    /\ resp.error = "Invalid signature"
    /\ ByReference(resp.key) # 0
    /\ checkouts[ByReference(resp.key)].status = "pending"

\* C16: a validly signed webhook whose event is not charge.success is
\* acknowledged with 200 and changes no record and no cart, also when it
\* names the reference of a pending record.
C16_OtherEventsOnlyAcknowledged ==
    [][\A event \in Events, ref \in References :
            (event # "charge.success" /\ webhookHandler(event, ref, SecretKey))
                => /\ resp'.code = 200
                   /\ checkouts' = checkouts
                   /\ carts' = carts
                   /\ wh' = wh]_vars

\* an acknowledged webhook that updated nothing although its reference is
\* that of a pending record with a filled cart
C16_Witness ==
    /\ resp.op = "webhookHandler"
    /\ resp.code = 200
    /\ resp.detail.was = ""
    /\ ByReference(resp.key) # 0
    /\ checkouts[ByReference(resp.key)].status = "pending"
    /\ carts[checkouts[ByReference(resp.key)].cart].products # << >>

\* C17: every validly signed webhook is acknowledged with 200, at once or
\* after its cart write; one whose reference matches no record is
\* acknowledged at once and changes no record and no cart.
C17_SignedWebhookAcknowledged ==
    [][/\ \A event \in Events, ref \in References :
            webhookHandler(event, ref, SecretKey)
                => /\ wh'.pc = "clear" \/ resp'.code = 200
                   /\ ByReference(ref) = 0
                        => /\ resp'.code = 200
                           /\ checkouts' = checkouts
                           /\ carts' = carts
       /\ webhookHandlerClear => resp'.code = 200]_vars

\* C18: a webhook request with a valid signature and no bearer token is
\* handled by webhookHandler.
C18_WebhookNeedsNoToken ==
    [][\A event \in Events, ref \in References :
            webhookRoute("", event, ref, SecretKey)
                => webhookHandler(event, ref, SecretKey)]_vars

\* C19: verifyPayment for a reference that matches no record answers 404
\* whether the gateway reports success or not, and changes no record and no
\* cart.
C19_UnknownReferenceNotFound ==
    [][\A ref \in References, status \in {"success", "failed"} :
            (ByReference(ref) = 0 /\ verifyPayment(ref, status))
                => /\ resp'.code = 404
                   /\ checkouts' = checkouts
                   /\ carts' = carts]_vars

\* C20: a confirmation of a record whose cart document is gone completes the
\* record, leaves the carts alone and gives the handler's success response.
C20_LostCartIsNoOp ==
    [][\A ref \in References :
            LET i == ByReference(ref)
            IN (/\ i # 0
                /\ ~Populated(checkouts[i])
                /\ \/ verifyPayment(ref, "success")
                   \/ webhookHandler("charge.success", ref, SecretKey))
                    => /\ checkouts'[i].status = "completed"
                       /\ carts' = carts
                       /\ resp'.code = 200]_vars

\* C21: the cart write of a confirmation changes no cart but the one the
\* confirmed record refers to.
C21_ClearTouchesOnlyRecordCart ==
    [][/\ verifyPaymentClear
            => \A u \in Users :
                    u # checkouts[ByReference(vp.ref)].cart
                        => carts'[u] = carts[u]
       /\ webhookHandlerClear
            => \A u \in Users :
                    u # checkouts[ByReference(wh.ref)].cart
                        => carts'[u] = carts[u]]_vars

\* a confirmation emptied its record's cart while another account's cart
\* holds line items
C21_Witness ==
    /\ resp.op \in Confirm
    /\ resp.code = 200
    /\ \E i \in Records, u \in Users :
            /\ checkouts[i].paymentReference = resp.key
            /\ carts[checkouts[i].cart].products = << >>
            /\ u # checkouts[i].cart
            /\ carts[u].products # << >>

\* C22: initializeCheckout and cancelCheckout leave every cart as it was,
\* whether they succeed or fail, and a poll the gateway did not report as
\* successful neither writes a cart nor leaves a cart write pending.
C22_OnlyConfirmationEmptiesCart ==
    [][/\ \A u \in Users, fieldsGiven \in BOOLEAN, gatewayUp \in BOOLEAN :
            initializeCheckout(u, fieldsGiven, gatewayUp) => carts' = carts
       /\ \A u \in Users, id \in References :
            cancelCheckout(u, id) => carts' = carts
       /\ cancelCheckoutSave => carts' = carts
       /\ \A ref \in References, status \in GatewayStatuses \ {"success"} :
            verifyPayment(ref, status) => carts' = carts /\ vp' = vp]_vars

\* a record was cancelled and the cart it was made from still holds its
\* line items
C22_Witness ==
    /\ resp.op = "cancelCheckout"
    /\ resp.code = 200
    /\ checkouts[resp.key].status = "cancelled"
    /\ carts[checkouts[resp.key].cart].products # << >>

\* C23: only a completed record carries payment confirmation details.
C23_DetailsOnlyWhenCompleted ==
    \A i \in Records :
        checkouts[i].paymentDetails # EmptyDetails
            => checkouts[i].status = "completed"

\* C24: cancelCheckout for an id that names no record, or a record of
\* another account, answers 404 and changes no record, no cart and no
\* request in flight; a cancellation goes on to its save only for a record
\* of the caller.
C24_CancelOnlyOwnRecord ==
    [][\A u \in Users, id \in References :
            cancelCheckout(u, id)
                => /\ (id \notin Records \/ checkouts[id].user # u)
                        => /\ resp'.code = 404
                           /\ checkouts' = checkouts
                           /\ carts' = carts
                           /\ cc' = cc
                   /\ cc'.pc = "save" => checkouts[id].user = u]_vars

\* the cancellation of an existing pending record was answered not found:
\* the caller was not its owner
C24_Witness ==
    /\ resp.op = "cancelCheckout"
    /\ resp.code = 404
    /\ resp.key \in Records
    /\ checkouts[resp.key].status = "pending"

\* C28: a record becomes completed only in a step of verifyPayment for its
\* reference on a gateway answer of success, or of webhookHandler on a
\* validly signed charge.success event for its reference; no record is
\* created completed.
C28_CompletedOnlyOnSuccessSignal ==
    [][\A i \in 1..Len(checkouts') :
            (/\ checkouts'[i].status = "completed"
             /\ i \in Records => checkouts[i].status # "completed")
                => /\ i \in Records
                   /\ \/ verifyPayment(checkouts[i].paymentReference, "success")
                      \/ webhookHandler("charge.success",
                                        checkouts[i].paymentReference, SecretKey)]_vars

\* a record is completed
C28_Witness ==
    \E i \in Records :
        /\ checkouts[i].status = "completed"
        /\ checkouts[i].paymentDetails # EmptyDetails

\* C25: whatever quantities the cart requests carry, every line stored in a
\* cart has a quantity of at least 1.
C25_StoredQuantityPositive ==
    \A u \in Users :
        \A k \in 1..Len(carts[u].products) :
            carts[u].products[k].quantity >= 1

\* an addToCart with a quantity below 1 passed the stock check and was
\* refused at the save
C25_Witness ==
    /\ resp.op = "addToCart"
    /\ resp.error = "ValidationError"
    /\ carts[resp.key].exists

\* C26: no account ever has more than one cart document: none is deleted,
\* so the documents an account owns are those created for it.
C26_OneCartPerAccount == \A u \in Users : carts[u].id <= 1

\* of two addToCart requests that both found no cart, the second to create
\* was refused
C26_Witness ==
    /\ resp.op = "addToCart"
    /\ resp.error = "E11000 duplicate key error"
    /\ carts[resp.key].exists
    /\ carts[resp.key].products # << >>

\* C29: with the cart requests run one at a time, no product id is on two
\* lines of a cart, and an addToCart for a product already in the cart
\* leaves that line with the requested quantity.
C29_OneLinePerProduct ==
    /\ [](\A u \in Users :
            \A j, k \in 1..Len(carts[u].products) :
                carts[u].products[j].product = carts[u].products[k].product
                    => j = k)
    /\ [][\A u \in Users, p \in ProductIds, q \in Quantities :
            (/\ addToCart(u, p, q)
             /\ resp'.code = 200
             /\ FindIndex(carts[u].products, p) > 0)
                => /\ Len(carts'[u].products) = Len(carts[u].products)
                   /\ carts'[u].products[FindIndex(carts[u].products, p)]
                        .quantity = q]_vars

\* an addToCart replaced the quantity 1 of a line by 2
C29_Witness ==
    /\ resp.op = "addToCart"
    /\ resp.code = 200
    /\ resp.detail = 1
    /\ Len(carts[resp.key].products) = 1
    /\ carts[resp.key].products[1].quantity = 2

\* C27: a record that has become completed and whose cart has not been
\* cleared for it yet leads to its cart being empty with total zero, when
\* the confirming handler runs to its end.
C27_CompletedLeadsToEmptyCart ==
    \A i \in 1..MaxCheckouts :
        (/\ i \in Records
         /\ checkouts[i].status = "completed"
         /\ clears[i] = 0)
            ~> (/\ i \in Records
                /\ clears[i] > 0
                /\ carts[checkouts[i].cart].products = << >>
                /\ carts[checkouts[i].cart].totalPrice = 0)

\* a record is completed and the cart write of its confirmation is still
\* to come, on a cart that holds line items
C27_Witness ==
    \E i \in Records :
        /\ checkouts[i].status = "completed"
        /\ clears[i] = 0
        /\ carts[checkouts[i].cart].products # << >>

====
